---- MODULE Spec2Model ----
(***************************************************************************)
(* ABCU advising assistance program (ProjectTwo.cpp): a catalog of courses *)
(* kept in an unbalanced binary search tree keyed by courseNumber, a CSV   *)
(* loader, the course-detail printer and the menu loop of main.            *)
(*                                                                         *)
(* A std::string is a sequence of one-character strings.  Standard output  *)
(* is a sequence of chunks, one per operator<<: a literal of the program   *)
(* (lit) or the value of a std::string (str).                              *)
(***************************************************************************)
EXTENDS Integers, Sequences, FiniteSets

VARIABLES
    root,       \* CourseBST::root: index into nodes, 0 is nullptr
    nodes,      \* the heap of Node objects, in allocation order
    loaded,     \* main: bool loaded
    choice,     \* main: int choice
    out,        \* what the last operation wrote to cout
    userInput,  \* the last line read from cin by getline
    disk,       \* the file "CS 300 ABCU_Advising_Program_Input.csv" on disk
    fileRead,   \* history: some loadCourses call opened and read the file
    inserted    \* history: the arguments of CourseBST::insert, in call order

vars == <<root, nodes, loaded, choice, out, userInput, disk, fileRead, inserted>>

----------------------------------------------------------------------------
(* Bounds of the model.                                                    *)

\* longest file content, in characters (newlines included)
MaxFileLen == 4
\* most nodes the tree is allowed to grow to
MaxNodes == 3
\* most prerequisite entries stored in the catalog built by direct inserts
MaxPrereqs == 2

----------------------------------------------------------------------------
(* Characters and std::string.                                             *)

\* the printable ASCII characters, code 32 first ("GRAVE" stands for the
\* grave accent, code 96, which a TLA+ string cannot hold)
Ascii ==
    <<" ", "!", "\"", "#", "$", "%", "&", "'", "(", ")", "*", "+", ",", "-",
      ".", "/", "0", "1", "2", "3", "4", "5", "6", "7", "8", "9", ":", ";",
      "<", "=", ">", "?", "@", "A", "B", "C", "D", "E", "F", "G", "H", "I",
      "J", "K", "L", "M", "N", "O", "P", "Q", "R", "S", "T", "U", "V", "W",
      "X", "Y", "Z", "[", "\\", "]", "^", "_", "GRAVE", "a", "b", "c", "d", "e",
      "f", "g", "h", "i", "j", "k", "l", "m", "n", "o", "p", "q", "r", "s",
      "t", "u", "v", "w", "x", "y", "z", "{", "|", "}", "~">>

\* the code of every character: tab, line feed, carriage return, printable
Code ==
    [c \in {"\t", "\n", "\r"} \cup {Ascii[i] : i \in 1..Len(Ascii)} |->
        IF c = "\t" THEN 9
        ELSE IF c = "\n" THEN 10
        ELSE IF c = "\r" THEN 13
        ELSE 31 + (CHOOSE i \in 1..Len(Ascii) : Ascii[i] = c)]

Ord(c) == Code[c]

\* toupper in the "C" locale
toupper(c) == IF Ord(c) \in 97..122 THEN Ascii[Ord(c) - 32 - 31] ELSE c

\* std::string::npos, positions being 0-based as in the program
npos == -1

\* the set " \t\r\n" handed to find_first_not_of and find_last_not_of
Whitespace == {" ", "\t", "\r", "\n"}

find_first_not_of(str) ==
    IF \E i \in 1..Len(str) : str[i] \notin Whitespace
    THEN (CHOOSE i \in 1..Len(str) :
              /\ str[i] \notin Whitespace
              /\ \A j \in 1..(i - 1) : str[j] \in Whitespace) - 1
    ELSE npos

find_last_not_of(str) ==
    IF \E i \in 1..Len(str) : str[i] \notin Whitespace
    THEN (CHOOSE i \in 1..Len(str) :
              /\ str[i] \notin Whitespace
              /\ \A j \in (i + 1)..Len(str) : str[j] \in Whitespace) - 1
    ELSE npos

\* std::string::substr(pos, count)
substr(str, pos, count) == SubSeq(str, pos + 1, pos + count)

toUpperTrim(str) ==
    LET start == find_first_not_of(str)
        end == find_last_not_of(str)
        trimmed == IF start # npos /\ end # npos
                   THEN substr(str, start, end - start + 1)
                   ELSE <<>>
    IN [i \in 1..Len(trimmed) |-> toupper(trimmed[i])]

\* operator< of std::string: byte-wise lexicographic, a proper prefix first
RECURSIVE StrLess(_, _)
StrLess(a, b) ==
    IF b = <<>> THEN FALSE
    ELSE IF a = <<>> THEN TRUE
    ELSE IF Ord(Head(a)) < Ord(Head(b)) THEN TRUE
    ELSE IF Ord(Head(a)) > Ord(Head(b)) THEN FALSE
    ELSE StrLess(Tail(a), Tail(b))

\* the loop "while (getline(stream, piece, delim)) pieces.push_back(piece)":
\* getline fails only when it extracts nothing and meets the end of the stream
RECURSIVE getlineAll(_, _)
getlineAll(s, delim) ==
    IF s = <<>> THEN <<>>
    ELSE IF \E i \in 1..Len(s) : s[i] = delim
    THEN LET i == CHOOSE i \in 1..Len(s) :
                      /\ s[i] = delim
                      /\ \A j \in 1..(i - 1) : s[j] # delim
         IN <<SubSeq(s, 1, i - 1)>> \o getlineAll(SubSeq(s, i + 1, Len(s)), delim)
    ELSE <<s>>

----------------------------------------------------------------------------
(* Output chunks.                                                          *)

Lit(text) == [lit |-> text, str |-> <<>>]
Str(s) == [lit |-> "", str |-> s]
endl == Lit("\n")

\* operator<< of an int: its decimal digits
RECURSIVE Digits(_)
Digits(n) ==
    IF n < 10 THEN <<Ascii[n + 48 - 31]>>
    ELSE Append(Digits(n \div 10), Ascii[(n % 10) + 48 - 31])

Num(n) == Str(IF n < 0 THEN <<"-">> \o Digits(0 - n) ELSE Digits(n))

----------------------------------------------------------------------------
(* Course, Node and CourseBST.                                             *)

Course(number, name, prereqs) ==
    [courseNumber |-> number, courseName |-> name, prerequisites |-> prereqs]

printCourseBasic(course) ==
    <<Str(course.courseNumber), Lit(", "), Str(course.courseName), endl>>

Node(c) == [course |-> c, left |-> 0, right |-> 0]

\* addNode as it would be if an equal courseNumber replaced the record in
\* place (last insertion wins)
RECURSIVE addNodeOverwrite(_, _, _)
addNodeOverwrite(heap, node, course) ==
    IF node = 0
    THEN [heap |-> Append(heap, Node(course)), node |-> Len(heap) + 1]
    ELSE IF course.courseNumber = heap[node].course.courseNumber
    THEN [heap |-> [heap EXCEPT ![node].course = course], node |-> node]
    ELSE IF StrLess(course.courseNumber, heap[node].course.courseNumber)
    THEN LET r == addNodeOverwrite(heap, heap[node].left, course)
         IN [heap |-> [r.heap EXCEPT ![node].left = r.node], node |-> node]
    ELSE LET r == addNodeOverwrite(heap, heap[node].right, course)
         IN [heap |-> [r.heap EXCEPT ![node].right = r.node], node |-> node]

\* addNode(Node*& node, course): the heap afterwards and the new value of node
RECURSIVE addNode(_, _, _)
addNode(heap, node, course) ==
    IF node = 0
    THEN [heap |-> Append(heap, Node(course)), node |-> Len(heap) + 1]
    ELSE IF StrLess(course.courseNumber, heap[node].course.courseNumber)
    THEN LET r == addNode(heap, heap[node].left, course)
         IN [heap |-> [r.heap EXCEPT ![node].left = r.node], node |-> node]
    ELSE LET r == addNode(heap, heap[node].right, course)
         IN [heap |-> [r.heap EXCEPT ![node].right = r.node], node |-> node]

RECURSIVE inOrder(_, _)
inOrder(heap, node) ==
    IF node = 0 THEN <<>>
    ELSE inOrder(heap, heap[node].left)
             \o printCourseBasic(heap[node].course)
             \o inOrder(heap, heap[node].right)

\* searchNode returns a pointer to the course of a node: the node's index
RECURSIVE searchNode(_, _, _)
searchNode(heap, node, courseNumber) ==
    IF node = 0 THEN 0
    ELSE IF heap[node].course.courseNumber = courseNumber THEN node
    ELSE IF StrLess(courseNumber, heap[node].course.courseNumber)
    THEN searchNode(heap, heap[node].left, courseNumber)
    ELSE searchNode(heap, heap[node].right, courseNumber)

\* CourseBST::insert on the tree (r, heap)
insert(r, heap, course) == addNode(heap, r, course)

\* CourseBST::printAll
printAll(r, heap) == inOrder(heap, r)

\* CourseBST::search
search(r, heap, courseNumber) == searchNode(heap, r, courseNumber)

----------------------------------------------------------------------------
(* loadCourses.                                                            *)

\* the body of "while (getline(file, line))", over the lines still unread;
\* st is the tree, the output so far and the insert history
RECURSIVE loadLines(_, _)
loadLines(lines, st) ==
    IF lines = <<>> THEN st
    ELSE LET line == Head(lines)
             tokens == getlineAll(line, ",")
         IN IF line = <<>> THEN loadLines(Tail(lines), st)
            ELSE IF Len(tokens) < 2
            THEN loadLines(Tail(lines),
                     [st EXCEPT !.out = @ \o
                         <<Lit("WARNING: Invalid course line (skipped): "),
                           Str(line), endl>>])
            ELSE LET course ==
                         Course(toUpperTrim(tokens[1]), tokens[2],
                                [i \in 1..(Len(tokens) - 2) |->
                                     toUpperTrim(tokens[i + 2])])
                     r == insert(st.root, st.heap, course)
                 IN loadLines(Tail(lines),
                        [root |-> r.node, heap |-> r.heap, out |-> st.out,
                         inserted |-> Append(st.inserted, course)])

\* loadCourses as it would be if the catalog were emptied before the file is
\* opened
loadCoursesReset(filename, file, r, heap, ins) ==
    IF ~file.exists
    THEN [root |-> 0, heap |-> <<>>, inserted |-> ins,
          out |-> <<Lit("ERROR: Could not open file: "), Str(filename), endl>>]
    ELSE LET st == loadLines(getlineAll(file.content, "\n"),
                       [root |-> 0, heap |-> <<>>, inserted |-> ins,
                        out |-> <<Lit("Loading courses from "), Str(filename),
                                  Lit("..."), endl>>])
         IN [st EXCEPT !.out = @ \o
                <<Lit("Courses loaded into data structure."), endl>>]

\* loadCourses(filename, bst): file is what ifstream finds under filename,
\* (r, heap) is bst and ins the insert history before the call
loadCourses(filename, file, r, heap, ins) ==
    IF ~file.exists
    THEN [root |-> r, heap |-> heap, inserted |-> ins,
          out |-> <<Lit("ERROR: Could not open file: "), Str(filename), endl>>]
    ELSE LET st == loadLines(getlineAll(file.content, "\n"),
                       [root |-> r, heap |-> heap, inserted |-> ins,
                        out |-> <<Lit("Loading courses from "), Str(filename),
                                  Lit("..."), endl>>])
         IN [st EXCEPT !.out = @ \o
                <<Lit("Courses loaded into data structure."), endl>>]

----------------------------------------------------------------------------
(* printCourseInfo.                                                        *)

\* the loop as it would be if firstPrinted were never set
RECURSIVE printPrereqsNoFlag(_, _, _, _)
printPrereqsNoFlag(r, heap, prereqs, firstPrinted) ==
    IF prereqs = <<>> THEN <<>>
    ELSE LET prereqID == Head(prereqs)
             sep == IF firstPrinted THEN <<Lit(", ")>> ELSE <<>>
             prereqCourse == search(r, heap, prereqID)
             entry == IF prereqCourse # 0
                      THEN <<Str(heap[prereqCourse].course.courseNumber),
                             Lit(": "),
                             Str(heap[prereqCourse].course.courseName)>>
                      ELSE <<Str(prereqID), Lit(": None Required")>>
         IN sep \o entry \o
            printPrereqsNoFlag(r, heap, Tail(prereqs), firstPrinted)

\* the loop "for (const auto& prereqID : course->prerequisites)"
RECURSIVE printPrereqs(_, _, _, _)
printPrereqs(r, heap, prereqs, firstPrinted) ==
    IF prereqs = <<>> THEN <<>>
    ELSE LET prereqID == Head(prereqs)
             sep == IF firstPrinted THEN <<Lit(", ")>> ELSE <<>>
             prereqCourse == search(r, heap, prereqID)
             entry == IF prereqCourse # 0
                      THEN <<Str(heap[prereqCourse].course.courseNumber),
                             Lit(": "),
                             Str(heap[prereqCourse].course.courseName)>>
                      ELSE <<Str(prereqID), Lit(": None Required")>>
         IN sep \o entry \o printPrereqs(r, heap, Tail(prereqs), TRUE)

\* printCourseInfo(bst) when getline(cin, userInput) reads input
printCourseInfo(r, heap, input) ==
    LET courseKey == toUpperTrim(input)
        course == search(r, heap, courseKey)
        prompt == <<Lit("What course do you want to know about? ")>>
    IN IF course = 0
       THEN prompt \o <<Lit("Course not found."), endl>>
       ELSE prompt \o printCourseBasic(heap[course].course) \o
            (IF heap[course].course.prerequisites # <<>>
             THEN <<Lit("Prerequisites: ")>> \o
                  printPrereqs(r, heap, heap[course].course.prerequisites,
                               FALSE) \o
                  <<endl>>
             ELSE <<Lit("Prerequisites: None"), endl>>)

----------------------------------------------------------------------------
(* main: the file name check of case 1.                                    *)

correctBase ==
    <<"C", "S", " ", "3", "0", "0", " ", "A", "B", "C", "U", "_", "A", "d",
      "v", "i", "s", "i", "n", "g", "_", "P", "r", "o", "g", "r", "a", "m",
      "_", "I", "n", "p", "u", "t">>

correctBaseCaps ==
    <<"C", "S", " ", "3", "0", "0", " ", "A", "B", "C", "U", "_", "A", "D",
      "V", "I", "S", "I", "N", "G", "_", "P", "R", "O", "G", "R", "A", "M",
      "_", "I", "N", "P", "U", "T">>

finalFilename == correctBase \o <<".", "c", "s", "v">>

\* inputCaps after the ".CSV" suffix, if any, has been removed
stripCsv(inputCaps) ==
    IF Len(inputCaps) >= 4
       /\ substr(inputCaps, Len(inputCaps) - 4, 4) = <<".", "C", "S", "V">>
    THEN substr(inputCaps, 0, Len(inputCaps) - 4)
    ELSE inputCaps

\* the test "inputCaps == correctBaseCaps" of case 1
nameMatches(inputName) ==
    stripCsv([i \in 1..Len(inputName) |-> toupper(inputName[i])])
        = correctBaseCaps

----------------------------------------------------------------------------
(* Inputs.                                                                 *)

\* characters a file is made of
FileChars == {"a", "B", " ", ",", "\n"}

\* contents of the input file
Contents == UNION {[1..n -> FileChars] : n \in 0..MaxFileLen}

\* the file on disk: missing (or unreadable), or present with some content
NoFile == [exists |-> FALSE, content |-> <<>>]
Disks == {NoFile} \cup {[exists |-> TRUE, content |-> c] : c \in Contents}

\* file names typed at the prompt of option 1
InputNames ==
    { correctBase,
      <<"c", "s", " ", "3", "0", "0", " ", "a", "b", "c", "u", "_", "a", "d",
        "v", "i", "s", "i", "n", "g", "_", "p", "r", "o", "g", "r", "a", "m",
        "_", "i", "n", "p", "u", "t", ".", "c", "s", "v">>,
      <<"c", "o", "u", "r", "s", "e", "s", ".", "c", "s", "v">> }

\* course numbers typed at the prompt of option 3
Queries == { <<"a">>, <<" ", "b", "\t">> }

\* courses handed to CourseBST::insert directly
CourseIds == { <<"A">>, <<"B">> }
CourseNames == { <<"x">>, <<"y">> }
PrereqLists == UNION {[1..n -> CourseIds] : n \in 0..MaxPrereqs}
Courses ==
    { Course(id, name, pre) :
          id \in CourseIds, name \in CourseNames, pre \in PrereqLists }

\* menu choices other than 1, 2, 3 and 9
OtherChoices == {0, 42}

\* what "cin >> choice" leaves in choice when it fails: 0 for text that is
\* not a number, the nearest limit of int for a number out of range
CinFailValues == {0, 2147483647, -2147483647 - 1}

----------------------------------------------------------------------------
(* main: the menu loop.  One action is one pass of the while loop.         *)

\* the menu and the prompt written at the top of every pass
Menu ==
    <<Lit("  1. Load Data Structure."), endl,
      Lit("  2. Print Course List."), endl,
      Lit("  3. Print Course."), endl,
      Lit("  9. Exit"), endl,
      endl, Lit("What would you like to do? ")>>

Init ==
    /\ root = 0
    /\ nodes = <<>>
    /\ loaded = FALSE
    /\ choice = 0
    /\ out = <<Lit("Welcome to the course planner."), endl, endl>>
    /\ userInput = <<>>
    /\ disk \in Disks
    /\ fileRead = FALSE
    /\ inserted = <<>>

\* "cin >> choice" fails
InvalidInput(v) ==
    /\ choice # 9
    /\ choice' = v
    /\ out' = Menu \o <<Lit("Input is not a valid option."), endl, endl>>
    /\ userInput' = <<>>
    /\ UNCHANGED <<root, nodes, loaded, disk, fileRead, inserted>>

\* case 1, inputName being the line read at its prompt
Choice1(inputName) ==
    /\ choice # 9
    /\ choice' = 1
    /\ userInput' = <<>>
    /\ LET ask == <<Lit("Enter the file name to load (case-insensitive, with or without .csv): ")>>
       IN IF nameMatches(inputName)
          THEN LET st == loadCourses(finalFilename, disk, root, nodes, inserted)
               IN /\ Len(st.heap) <= MaxNodes
                  /\ root' = st.root
                  /\ nodes' = st.heap
                  /\ inserted' = st.inserted
                  /\ out' = Menu \o ask \o
                            <<Lit("Using file: "), Str(finalFilename), endl>> \o
                            st.out
                  /\ loaded' = TRUE
                  /\ fileRead' = (fileRead \/ disk.exists)
          ELSE /\ out' = Menu \o ask \o
                         <<Lit("ERROR: The file name does not match \""),
                           Str(correctBase), Lit("\" (ignoring case)."), endl,
                           Lit("Please re-check your spelling and try again."),
                           endl>>
               /\ UNCHANGED <<root, nodes, inserted, loaded, fileRead>>
    /\ UNCHANGED disk

\* case 2
Choice2 ==
    /\ choice # 9
    /\ choice' = 2
    /\ userInput' = <<>>
    /\ out' = Menu \o
              (IF ~loaded
               THEN <<Lit("Please load courses before printing the list."), endl>>
               ELSE <<Lit("Here is the course schedule:"), endl, endl>> \o
                    printAll(root, nodes) \o <<endl>>)
    /\ UNCHANGED <<root, nodes, loaded, disk, fileRead, inserted>>

\* case 3, input being the line printCourseInfo reads
Choice3(input) ==
    /\ choice # 9
    /\ choice' = 3
    /\ IF ~loaded
       THEN /\ out' = Menu \o
                      <<Lit("Please load courses before searching for a course."),
                        endl>>
            /\ userInput' = <<>>
       ELSE /\ out' = Menu \o printCourseInfo(root, nodes, input) \o <<endl>>
            /\ userInput' = input
    /\ UNCHANGED <<root, nodes, loaded, disk, fileRead, inserted>>

\* case 9: the loop ends
Choice9 ==
    /\ choice # 9
    /\ choice' = 9
    /\ userInput' = <<>>
    /\ out' = Menu \o
              <<Lit("Thank you for using the course planner!"), endl,
                Lit("Press ENTER to close the program..."), endl>>
    /\ UNCHANGED <<root, nodes, loaded, disk, fileRead, inserted>>

\* default: any other number
ChoiceDefault(c) ==
    /\ choice # 9
    /\ choice' = c
    /\ userInput' = <<>>
    /\ out' = Menu \o <<Num(c), Lit(" is not a valid option."), endl, endl>>
    /\ UNCHANGED <<root, nodes, loaded, disk, fileRead, inserted>>

\* the environment removes the input file while the program waits for input
DeleteFile ==
    /\ choice # 9
    /\ disk.exists
    /\ disk' = NoFile
    /\ UNCHANGED <<root, nodes, loaded, choice, out, userInput, fileRead, inserted>>

Next ==
    \/ \E v \in CinFailValues : InvalidInput(v)
    \/ \E inputName \in InputNames : Choice1(inputName)
    \/ Choice2
    \/ \E input \in Queries : Choice3(input)
    \/ Choice9
    \/ \E c \in OtherChoices : ChoiceDefault(c)
    \/ DeleteFile

Spec == Init /\ [][Next]_vars

----------------------------------------------------------------------------
(* The catalog on its own: CourseBST and printCourseInfo driven directly.  *)

InitCatalog ==
    /\ root = 0
    /\ nodes = <<>>
    /\ loaded = FALSE
    /\ choice = 0
    /\ out = <<>>
    /\ userInput = <<>>
    /\ disk = NoFile
    /\ fileRead = FALSE
    /\ inserted = <<>>

RECURSIVE SumPrereqs(_)
SumPrereqs(courses) ==
    IF courses = <<>> THEN 0
    ELSE Len(Head(courses).prerequisites) + SumPrereqs(Tail(courses))

Insert(course) ==
    /\ Len(nodes) < MaxNodes
    /\ SumPrereqs(inserted) + Len(course.prerequisites) <= MaxPrereqs
    /\ LET r == insert(root, nodes, course)
       IN /\ root' = r.node
          /\ nodes' = r.heap
    /\ inserted' = Append(inserted, course)
    /\ out' = <<>>
    /\ userInput' = <<>>
    /\ UNCHANGED <<loaded, choice, disk, fileRead>>

PrintAll ==
    /\ out' = printAll(root, nodes)
    /\ userInput' = <<>>
    /\ UNCHANGED <<root, nodes, loaded, choice, disk, fileRead, inserted>>

PrintCourseInfo(input) ==
    /\ out' = printCourseInfo(root, nodes, input)
    /\ userInput' = input
    /\ UNCHANGED <<root, nodes, loaded, choice, disk, fileRead, inserted>>

NextCatalog ==
    \/ \E course \in Courses : Insert(course)
    \/ PrintAll
    \/ \E input \in Queries : PrintCourseInfo(input)

SpecCatalog == InitCatalog /\ [][NextCatalog]_vars

----------------------------------------------------------------------------
(* Reading the output back.                                                *)

HasChunk(o, c) == \E i \in 1..Len(o) : o[i] = c

\* o consists of lines "courseNumber, courseName" as printCourseBasic writes
IsCourseList(o) ==
    /\ Len(o) % 4 = 0
    /\ \A i \in 1..(Len(o) \div 4) :
           /\ o[4 * i - 3].lit = ""
           /\ o[4 * i - 2] = Lit(", ")
           /\ o[4 * i - 1].lit = ""
           /\ o[4 * i] = endl

ListedId(o, i) == o[4 * i - 3].str
ListedName(o, i) == o[4 * i - 1].str

\* the record of the earliest insert whose courseNumber is k
FirstInserted(k) ==
    inserted[CHOOSE i \in 1..Len(inserted) :
                 /\ inserted[i].courseNumber = k
                 /\ \A j \in 1..(i - 1) : inserted[j].courseNumber # k]

WasInserted(k) == \E i \in 1..Len(inserted) : inserted[i].courseNumber = k

----------------------------------------------------------------------------
(* Claims about the catalog, checked under SpecCatalog.                    *)

\* C1: the courseNumber values printAll emits are strictly ascending under
\* byte-wise comparison, whatever was inserted (duplicates included).
C1_StrictlyAscending ==
    IsCourseList(out) =>
        \A i, j \in 1..(Len(out) \div 4) :
            i < j => StrLess(ListedId(out, i), ListedId(out, j))

\* C2: first insertion wins: for every courseNumber k inserted at least once,
\* search(k) returns the record of the earliest insert of k.
C2_FirstInsertionWins ==
    \A i \in 1..Len(inserted) :
        LET k == inserted[i].courseNumber
            n == search(root, nodes, k)
        IN /\ n # 0
           /\ nodes[n].course = FirstInserted(k)

\* C2 witness: a key was inserted twice with different records, another key
\* in between, and printCourseInfo has just searched for it.
C2_Witness ==
    /\ \E i, j, l \in 1..Len(inserted) :
           /\ i < j /\ j < l
           /\ inserted[i].courseNumber = inserted[l].courseNumber
           /\ inserted[i] # inserted[l]
           /\ inserted[j].courseNumber # inserted[i].courseNumber
           /\ toUpperTrim(userInput) = inserted[i].courseNumber
    /\ HasChunk(out, Lit("What course do you want to know about? "))

\* C3: every course printAll lists is found by search under its courseNumber,
\* with the same courseNumber and courseName; a courseNumber never inserted
\* is not found.
C3_LookupAgreesWithEnumeration ==
    /\ IsCourseList(out) =>
           \A i \in 1..(Len(out) \div 4) :
               LET n == search(root, nodes, ListedId(out, i))
               IN /\ n # 0
                  /\ nodes[n].course.courseNumber = ListedId(out, i)
                  /\ nodes[n].course.courseName = ListedName(out, i)
    /\ \A k \in CourseIds : ~WasInserted(k) => search(root, nodes, k) = 0

\* the entries printCourseInfo is to write for a prerequisite list
RECURSIVE JoinEntries(_, _)
JoinEntries(entries, sep) ==
    IF entries = <<>> THEN <<>>
    ELSE IF Len(entries) = 1 THEN entries[1]
    ELSE entries[1] \o <<sep>> \o JoinEntries(Tail(entries), sep)

ExpectedEntries(r, heap, prereqs) ==
    [i \in 1..Len(prereqs) |->
        LET p == search(r, heap, prereqs[i])
        IN IF p # 0
           THEN <<Str(heap[p].course.courseNumber), Lit(": "),
                  Str(heap[p].course.courseName)>>
           ELSE <<Str(prereqs[i]), Lit(": None Required")>>]

----------------------------------------------------------------------------
(* Claims about loadCourses and the menu, checked under Spec.              *)

\* a step in which option 1 called loadCourses (a pass of the menu loop
\* leaves the file alone; what remains is the removal of the file)
LoadCalled ==
    /\ choice' = 1
    /\ HasChunk(out', Lit("Using file: "))
    /\ disk' = disk

\* a step in which loadCourses opened the file and read it
LoadRead == LoadCalled /\ HasChunk(out', Lit("Loading courses from "))

\* the lines of the file, as getline delivers them
FileLines == getlineAll(disk.content, "\n")

\* the comma-delimited fields of a line: one more than it has commas
RECURSIVE Fields(_)
Fields(line) ==
    IF \E i \in 1..Len(line) : line[i] = ","
    THEN LET i == CHOOSE i \in 1..Len(line) :
                      /\ line[i] = ","
                      /\ \A j \in 1..(i - 1) : line[j] # ","
         IN <<SubSeq(line, 1, i - 1)>> \o Fields(SubSeq(line, i + 1, Len(line)))
    ELSE <<line>>

Count(seq, P(_)) == Cardinality({i \in 1..Len(seq) : P(seq[i])})

IsWarning(chunk) == chunk = Lit("WARNING: Invalid course line (skipped): ")
IsShort(line) == line # <<>> /\ Len(Fields(line)) < 2
IsWellFormed(line) == line # <<>> /\ Len(Fields(line)) >= 2

\* C4: a loadCourses call that cannot open its file reports the failure and
\* leaves the catalog exactly as it was, empty or populated.
C4_FailedLoadKeepsCatalog ==
    [][ (LoadCalled /\ ~disk.exists)
        => /\ HasChunk(out', Lit("ERROR: Could not open file: "))
           /\ root' = root
           /\ nodes' = nodes
      ]_vars

\* C4 witness: a load has failed on a catalog an earlier load had populated.
C4_Witness ==
    /\ choice = 1
    /\ HasChunk(out, Lit("ERROR: Could not open file: "))
    /\ fileRead
    /\ nodes # <<>>

\* C5: a load writes one warning per non-empty line with fewer than two
\* fields and none for any other line, and adds one course per line with at
\* least two fields.
C5_MalformedTolerated ==
    [][ LoadRead
        => /\ Count(out', IsWarning) = Count(FileLines, IsShort)
           /\ Len(nodes') - Len(nodes) = Count(FileLines, IsWellFormed)
      ]_vars

\* C6: once the file has been loaded, every line "id," of it (an identifier
\* and an empty second field) is a course with that id and an empty title
\* that search returns.
C6_EmptyTitleLoaded ==
    (fileRead /\ disk.exists) =>
        \A i \in 1..Len(FileLines) :
            LET f == Fields(FileLines[i])
            IN (Len(f) = 2 /\ toUpperTrim(f[1]) # <<>> /\ f[2] = <<>>) =>
                   LET n == search(root, nodes, toUpperTrim(f[1]))
                   IN /\ n # 0
                      /\ nodes[n].course.courseName = <<>>

IsNormalized(s) ==
    /\ s # <<>>
    /\ s[1] \notin Whitespace
    /\ s[Len(s)] \notin Whitespace
    /\ \A i \in 1..Len(s) : Ord(s[i]) \notin 97..122

\* C7: every courseNumber in the catalog is non-empty, has no surrounding
\* whitespace and no lowercase letter; every stored prerequisite is trimmed
\* and uppercased.
C7_IdentifiersNormalized ==
    \A n \in 1..Len(nodes) :
        /\ IsNormalized(nodes[n].course.courseNumber)
        /\ \A i \in 1..Len(nodes[n].course.prerequisites) :
               toUpperTrim(nodes[n].course.prerequisites[i])
                   = nodes[n].course.prerequisites[i]

\* the course a line of the file states
Authored(line) ==
    LET f == Fields(line)
    IN Course(f[1], f[2], SubSeq(f, 3, Len(f)))

\* C8: loading a file whose lines all have at least two fields and whose ids
\* are normalized and pairwise distinct into an empty catalog leaves exactly
\* the courses the file states.
C8_LoaderRoundTrip ==
    [][ ( /\ LoadRead
          /\ nodes = <<>>
          /\ \A i \in 1..Len(FileLines) :
                 /\ IsWellFormed(FileLines[i])
                 /\ IsNormalized(Fields(FileLines[i])[1])
          /\ \A i, j \in 1..Len(FileLines) :
                 i # j => Fields(FileLines[i])[1] # Fields(FileLines[j])[1] )
        => LET listing == printAll(root', nodes')
           IN { nodes'[n].course :
                    n \in {m \in 1..Len(nodes') :
                               \E i \in 1..(Len(listing) \div 4) :
                                   ListedId(listing, i)
                                       = nodes'[m].course.courseNumber} }
              = { Authored(FileLines[i]) : i \in 1..Len(FileLines) }
      ]_vars

\* C10: while no load has opened and read the file, options 2 and 3 write
\* only their request to load courses first.
C10_MenuGating ==
    /\ (~fileRead /\ choice = 2) =>
           out = Menu \o
                 <<Lit("Please load courses before printing the list."), endl>>
    /\ (~fileRead /\ choice = 3) =>
           out = Menu \o
                 <<Lit("Please load courses before searching for a course."),
                   endl>>

====
